---- MODULE Spec2Model ----
(***************************************************************************)
(* A model of sealfile: the key-deriving Encryptor (encryptor.go), the     *)
(* SecureFile save/load pair, the FileManager batch entry points           *)
(* (file_manager.go), the BatchProcessor and the FileReducer compression   *)
(* engine (file_reducer.go).                                               *)
(*                                                                         *)
(* Cryptography is symbolic: a derived key is the pair (key material,      *)
(* salt), a sealed ciphertext records the key and nonce it was sealed      *)
(* under, and Open succeeds exactly when it is given that key and nonce.   *)
(* Every read and write of a field of the shared Encryptor is its own      *)
(* step, so that the interleavings of unsynchronised goroutines are the    *)
(* behaviours of the model.                                                *)
(***************************************************************************)
EXTENDS Integers, Sequences, FiniteSets, TLC

\* ------------------------------------------------------------------ bounds
NumCallers == 2      \* goroutines calling the shared Encryptor directly
MaxTasks == 3        \* most operations in one batch call
NumSalts == 2        \* distinct values the random salt can take
NumNonces == 1       \* distinct values the random nonce can take
MaxPlainLen == 1     \* longest plaintext buffer
MaxDataLen == 4      \* longest buffer given to a FileReducer
MaxPool == 1         \* containers kept for later Decrypt calls
MaxRotations == 2    \* most RotatePepper calls in one behaviour
MaxEncryptors == 3   \* most Encryptor instances one FileManager comes to hold
NumLocs == 2         \* storage locations that hold a file when a batch starts

\* ------------------------------------------------------- program constants
SaltSize == 16
NonceSize == 12
TagSize == 16

Max(a, b) == IF a >= b THEN a ELSE b

\* if maxConcurrency <= 0 { maxConcurrency = 5 }
DefaultConcurrency == 5
HeaderSize == 16
SmallFile == 1024

\* One batch is larger than the default bound, so that the default admits
\* fewer tasks than there are.
LargeBatch == DefaultConcurrency + 1

Callers == 1..NumCallers
Tasks == 1..Max(MaxTasks, LargeBatch)
Threads == 1..Max(NumCallers, Max(MaxTasks, LargeBatch))
Salts == 1..NumSalts
Nonces == 1..NumNonces
PlainBytes == {65}

\* A location whose directory cannot be created: reads and writes fail there.
BadLoc == 0
\* Locations 1..NumLocs, and one more that holds no file when a batch starts.
FreshLoc == NumLocs + 1
Locs == 1..FreshLoc
AllLocs == Locs \cup {BadLoc}
\* The locations the direct (non-batch) callers save to and load from.
CallerLocs == {BadLoc, 1}

RECURSIVE BufsOfLen(_, _)
BufsOfLen(n, alphabet) ==
    IF n = 0 THEN {<<>>}
    ELSE {Append(b, x) : b \in BufsOfLen(n - 1, alphabet), x \in alphabet}

BufsUpTo(n, alphabet) == UNION {BufsOfLen(k, alphabet) : k \in 0..n}

Plaintexts == BufsUpTo(MaxPlainLen, PlainBytes)

\* The caller's secrets: one key, two peppers (strings, as byte sequences).
TheKey == <<1>>
PepperA == <<2>>
PepperB == <<3>>
OtherKey == <<4>>

NoErr == "nil"

VARIABLES
    enc,        \* the shared Encryptor: baseKey, pepper, currentSalt, cipherKey, cipherGCM
    th,         \* per goroutine: position in its operation and its locals
    pool,       \* containers returned by Encrypt, available to Decrypt callers
    storage,    \* the file system: location -> stored bytes
    encAtCall,  \* history: the Encryptor as it was when the latest direct call began
    saved,      \* history: per location, the data of the last successful SaveEncrypted
    batch,      \* the running batch call: entry point, arguments, input operations
    main,       \* the batch call's own goroutine: its position in the spawn/collect loops
    results,    \* the slice the batch call returns
    sem,        \* number of values in the semaphore channel
    wg,         \* the WaitGroup counter
    errChan,    \* the buffered error channel of ProcessFiles
    fr,         \* a FileReducer, the buffer given to it and what it returned
    fm          \* the FileManager: its configuration and which Encryptor instance it holds

batchVars == <<batch, main, results, sem, wg, errChan>>

vars == <<enc, th, pool, storage, encAtCall, saved, batch, main, results, sem, wg, errChan, fr, fm>>

\* ------------------------------------------------------ symbolic cryptography
\* A derivation that left the pepper out of the key material.
DeriveKeyNoPepper(baseKey, pepper, salt) == [material |-> baseKey, salt |-> salt]

\* pbkdf2.Key(append(baseKey, pepper...), salt, ...): a function of the
\* concatenated key material and the salt.
DeriveKey(baseKey, pepper, salt) == [material |-> baseKey \o pepper, salt |-> salt]

NoKey == [material |-> <<>>, salt |-> 0]

\* A byte buffer. gz counts gzip layers; enc says the buffer is
\* salt || nonce || ciphertext+tag, and then key and sealNonce are the key and
\* nonce the ciphertext was sealed under; otherwise pt is the buffer's bytes.
RawBlob(d) ==
    [gz |-> 0, enc |-> FALSE, salt |-> 0, nonce |-> 0, key |-> NoKey, sealNonce |-> 0, pt |-> d]

NoBlob == RawBlob(<<>>)

\* No file at a location.
NoFile == [RawBlob(<<>>) EXCEPT !.gz = -1]

\* cipherGCM.Seal(nil, nonce, data, nil) under the GCM instance's key, framed
\* as result = salt || nonce || ciphertext with the salt the call generated.
SealedContainer(gcmKey, salt, nonce, data) ==
    [gz |-> 0, enc |-> TRUE, salt |-> salt, nonce |-> nonce, key |-> gcmKey,
     sealNonce |-> nonce, pt |-> data]

BlobLen(b) ==
    IF b.enc THEN SaltSize + NonceSize + Len(b.pt) + TagSize ELSE Len(b.pt)

\* e.cipherGCM.Open without the authentication of the tag.
OpenUnauthenticated(gcmKey, b) == b.gz = 0 /\ b.enc

\* cipherGCM.Open(nil, nonce, ciphertext, nil): authenticates under the GCM
\* instance's key and the nonce read from the buffer.
OpenOk(gcmKey, b) == b.gz = 0 /\ b.enc /\ b.key = gcmKey /\ b.sealNonce = b.nonce

\* A Compress that returned its input unchanged.
CompressSkipped(b) == b

\* Compressor.Compress: one gzip layer around the bytes.
Compress(b) == [b EXCEPT !.gz = b.gz + 1]

\* Compressor.Decompress: gzip.NewReader rejects bytes that are no gzip stream.
DecompressOk(b) == b.gz >= 1

Decompress(b) == [b EXCEPT !.gz = b.gz - 1]

\* ------------------------------------------------------------- Encryptor
NewEncryptorWith(key, pepper, tempSalt) ==
    [baseKey |-> key, pepper |-> pepper, currentSalt |-> tempSalt,
     cipherKey |-> DeriveKey(key, pepper, tempSalt),
     cipherGCM |-> DeriveKey(key, pepper, tempSalt)]

\* A goroutine that runs nothing. stage tells which of Encrypt ("enc") and
\* Decrypt ("dec") the running updateCipher belongs to.
IdleThread ==
    [pc |-> "idle", op |-> "none", stage |-> "none", data |-> <<>>, blob |-> NoBlob,
     salt |-> 0, err |-> NoErr, loc |-> BadLoc, dst |-> BadLoc]

\* minSize at the head of Decrypt.
DecryptMinSize == SaltSize + NonceSize + 1

TooShort(b) == BlobLen(b) < DecryptMinSize

\* updateCipher, first statement: e.currentSalt = salt
UpdSalt(t) ==
    /\ th[t].pc = "upd_salt"
    /\ enc' = [enc EXCEPT !.currentSalt = th[t].salt]
    /\ th' = [th EXCEPT ![t].pc = "upd_key"]
    /\ UNCHANGED <<pool, storage, saved>>
    /\ UNCHANGED <<encAtCall, fr, fm>>
    /\ UNCHANGED batchVars

\* updateCipher: derivedKey := e.deriveKey(salt); e.cipherKey = aes.NewCipher(derivedKey)
UpdKey(t) ==
    /\ th[t].pc = "upd_key"
    /\ enc' = [enc EXCEPT !.cipherKey = DeriveKey(enc.baseKey, enc.pepper, th[t].salt)]
    /\ th' = [th EXCEPT ![t].pc = "upd_gcm"]
    /\ UNCHANGED <<pool, storage, saved>>
    /\ UNCHANGED <<encAtCall, fr, fm>>
    /\ UNCHANGED batchVars

\* The step that follows updateCipher: Seal in Encrypt, Open in Decrypt, the
\* return to RotatePepper in UpdatePepper.
AfterUpdate(stage) ==
    IF stage = "enc" THEN "seal" ELSE IF stage = "rot" THEN "rot_config" ELSE "open"

\* updateCipher: e.cipherGCM = cipher.NewGCM(e.cipherKey), reading the shared field
UpdGcm(t) ==
    /\ th[t].pc = "upd_gcm"
    /\ enc' = [enc EXCEPT !.cipherGCM = enc.cipherKey]
    /\ th' = [th EXCEPT ![t].pc = AfterUpdate(th[t].stage)]
    /\ UNCHANGED <<pool, storage, saved>>
    /\ UNCHANGED <<encAtCall, fr, fm>>
    /\ UNCHANGED batchVars

\* Where Encrypt returns to: its caller, or SaveEncrypted's compress-and-write.
AfterSeal(op) == IF op = "Encrypt" THEN "ret" ELSE "save_write"

\* Encrypt, after updateCipher: a fresh nonce, Seal under e.cipherGCM, and
\* result = salt || nonce || ciphertext with the call's own salt.
Seal(t) ==
    /\ th[t].pc = "seal"
    /\ \E nonce \in Nonces :
         th' = [th EXCEPT ![t].blob = SealedContainer(enc.cipherGCM, th[t].salt, nonce, th[t].data),
                          ![t].pc = AfterSeal(th[t].op)]
    /\ UNCHANGED <<enc, pool, storage, saved>>
    /\ UNCHANGED <<encAtCall, fr, fm>>
    /\ UNCHANGED batchVars

AuthError == "failed to decrypt data"

\* Where a successful Decrypt returns to: the direct caller and LoadDecrypted's
\* callers get the data; ReEncryptFile goes on to SaveEncrypted (Encrypt with a
\* salt from generateSalt); copyWithDecryption goes on to os.WriteFile.
AfterOpenOk(r, s) ==
    IF r.op = "ReEncrypt" THEN [r EXCEPT !.pc = "upd_salt", !.stage = "enc", !.salt = s]
    ELSE IF r.op = "CopyDec" THEN [r EXCEPT !.pc = "copy_write"]
    ELSE [r EXCEPT !.pc = "ret"]

\* Decrypt, after updateCipher: Open under e.cipherGCM. On failure Decrypt
\* returns (nil, err), and every caller returns the error.
Open(t) ==
    /\ th[t].pc = "open"
    /\ IF OpenOk(enc.cipherGCM, th[t].blob)
       THEN \E s \in Salts :
              th' = [th EXCEPT ![t] = AfterOpenOk([th[t] EXCEPT !.data = th[t].blob.pt,
                                                               !.err = NoErr], s)]
       ELSE th' = [th EXCEPT ![t].data = <<>>, ![t].err = AuthError, ![t].pc = "ret"]
    /\ UNCHANGED <<enc, pool, storage, saved>>
    /\ UNCHANGED <<encAtCall, fr, fm>>
    /\ UNCHANGED batchVars

\* A caller enters Encrypt(data): generateSalt, then updateCipher(salt).
CallEncrypt(t) ==
    /\ th[t].pc = "idle"
    /\ \E d \in Plaintexts, s \in Salts :
         th' = [th EXCEPT ![t] = [IdleThread EXCEPT !.pc = "upd_salt", !.op = "Encrypt",
                                                    !.stage = "enc", !.data = d, !.salt = s]]
    /\ UNCHANGED <<enc, pool, storage, saved>>
    /\ encAtCall' = enc
    /\ UNCHANGED <<fr, fm>>
    /\ UNCHANGED batchVars

\* A Decrypt that kept the instance's cipher instead of deriving it again
\* from the salt the container carries.
EnterDecryptStaleSalt(r, c) ==
    IF TooShort(c)
    THEN [r EXCEPT !.pc = "ret", !.stage = "dec", !.data = <<>>, !.blob = c,
                   !.err = "encrypted data too short"]
    ELSE [r EXCEPT !.pc = "upd_salt", !.stage = "dec", !.blob = c, !.salt = enc.currentSalt]

\* A Decrypt that refused a container whose salt is not the instance's
\* current one, with an error of its own.
EnterDecryptSaltCheck(r, c) ==
    IF TooShort(c)
    THEN [r EXCEPT !.pc = "ret", !.stage = "dec", !.data = <<>>, !.blob = c,
                   !.err = "encrypted data too short"]
    ELSE IF c.salt /= enc.currentSalt
    THEN [r EXCEPT !.pc = "ret", !.stage = "dec", !.data = <<>>, !.blob = c,
                   !.err = "unknown salt"]
    ELSE [r EXCEPT !.pc = "upd_salt", !.stage = "dec", !.blob = c, !.salt = c.salt]

\* Decrypt(c) up to updateCipher: the length check, then salt := c[:SaltSize].
EnterDecrypt(r, c) ==
    IF TooShort(c)
    THEN [r EXCEPT !.pc = "ret", !.stage = "dec", !.data = <<>>, !.blob = c,
                   !.err = "encrypted data too short"]
    ELSE [r EXCEPT !.pc = "upd_salt", !.stage = "dec", !.blob = c, !.salt = c.salt]

\* A caller enters Decrypt(c) with a container an Encrypt call returned.
CallDecrypt(t) ==
    /\ th[t].pc = "idle"
    /\ \E c \in pool :
         th' = [th EXCEPT ![t] = EnterDecrypt([IdleThread EXCEPT !.op = "Decrypt"], c)]
    /\ UNCHANGED <<enc, pool, storage, saved>>
    /\ encAtCall' = enc
    /\ UNCHANGED <<fr, fm>>
    /\ UNCHANGED batchVars

\* The call returns to its caller; a container Encrypt returned is kept.
Return(t) ==
    /\ th[t].pc = "ret"
    /\ pool' = IF th[t].op = "Encrypt" /\ Cardinality(pool) < MaxPool
               THEN pool \cup {th[t].blob} ELSE pool
    /\ th' = [th EXCEPT ![t] = IdleThread]
    /\ UNCHANGED <<enc, storage, saved>>
    /\ UNCHANGED <<encAtCall, fr, fm>>
    /\ UNCHANGED batchVars

\* --------------------------------------------------------- FileReducer
\* The CompressionMethod values in iota order: GZIP = 0 .. HYBRID = 7, then
\* ADAPTIVE = 8.
MethodNames ==
    <<"GZIP", "ZLIB", "DEFLATE", "LZW", "ZSTD", "LZ4", "XZ", "HYBRID", "ADAPTIVE">>

\* The concrete methods, those the two switches have a case for.
Methods == {MethodNames[i] : i \in 1..Len(MethodNames)} \ {"ADAPTIVE"}

\* What a caller may pass to NewFileReducer: a concrete method, ADAPTIVE, or
\* a value outside the enumeration.
ConfiguredMethods == Methods \cup {"ADAPTIVE", "unsupported"}

\* byte(method), and CompressionMethod(data[2]).
MethodByte(m) == (CHOOSE i \in 1..Len(MethodNames) : MethodNames[i] = m) - 1

MethodOfByte(b) == IF b + 1 \in 1..Len(MethodNames) THEN MethodNames[b + 1] ELSE "unsupported"

\* Bytes of the buffers given to a FileReducer: NUL, 'A' and 'G'.
DataBytes == {0, 65, 71}

DataBufs == BufsUpTo(MaxDataLen, DataBytes)

\* A byte buffer as the codecs see it: the raw bytes, inside the frames the
\* compression libraries have wrapped around them, outermost first.
Raw(bytes) == [layers |-> <<>>, bytes |-> bytes]

\* What a library's writer adds around its input. A buffer this short holds
\* no match, so every codec stores it: an LZ4 block is a token and the
\* literals, a ZSTD frame is a frame header and one raw block, an XZ stream
\* its header, block header, index and footer.
FrameOverhead(codec) ==
    CASE codec = "LZ4" -> 1
      [] codec = "ZSTD" -> 9
      [] codec = "XZ" -> 60
      [] codec = "GZIP" -> 23
      [] codec = "ZLIB" -> 11
      [] codec = "DEFLATE" -> 5
      [] codec = "LZW" -> 2

RECURSIVE SumOverhead(_)
SumOverhead(layers) ==
    IF layers = <<>> THEN 0 ELSE FrameOverhead(Head(layers)) + SumOverhead(Tail(layers))

\* len(buffer)
BufLen(b) == Len(b.bytes) + SumOverhead(b.layers)

\* compressGzip .. compressXZ: the library's writer frames its input.
CodecCompress(codec, b) == [b EXCEPT !.layers = <<codec>> \o @]

\* decompressGzip .. decompressXZ: the library's reader accepts only its own
\* format.
CodecAccepts(codec, b) == b.layers /= <<>> /\ Head(b.layers) = codec

CodecDecompress(codec, b) == [b EXCEPT !.layers = Tail(@)]

\* decompressLZ4: lz4.UncompressBlock into a buffer of originalSize bytes.
LZ4Accepts(b, originalSize) ==
    CodecAccepts("LZ4", b) /\ BufLen(CodecDecompress("LZ4", b)) <= originalSize

\* preFilterData: delta encoding, filtered[i] = data[i] - data[i-1] in bytes.
preFilterData(data) ==
    IF Len(data) < 2 THEN data
    ELSE [i \in 1..Len(data) |-> IF i = 1 THEN data[1] ELSE (data[i] - data[i - 1]) % 256]

\* reversePreFilter: restored[i] = data[i] + restored[i-1] in bytes.
RECURSIVE PrefixSum(_, _)
PrefixSum(data, i) == IF i = 1 THEN data[1] ELSE (data[i] + PrefixSum(data, i - 1)) % 256

\* A reversal that returned its input.
reversePreFilterSkipped(data) == data

reversePreFilter(data) ==
    IF Len(data) < 2 THEN data ELSE [i \in 1..Len(data) |-> PrefixSum(data, i)]

\* Entries of the signature table of isAlreadyCompressed: ZIP, GZIP, ZLIB,
\* BMP, MPEG-TS, UTF-16 LE BOM, Windows PE.
Signatures ==
    {<<80, 75, 3, 4>>, <<31, 139, 8>>, <<120, 156>>, <<66, 77>>, <<71>>, <<255, 254>>,
     <<77, 90>>}

HasPrefix(bytes, sig) ==
    Len(bytes) >= Len(sig) /\ \A i \in 1..Len(sig) : bytes[i] = sig[i]

\* calculateEntropy(data[:4096]) > 7.5: a buffer with fewer than 182 distinct
\* byte values has an entropy below log2(182) < 7.51, and one of at most
\* 4096 bytes in which 182 or more values are equally frequent has an entropy
\* of log2 of their number, above 7.5; the buffers here are of these two
\* sorts, so the number of distinct values decides it.
HighEntropy(bytes) == Cardinality({bytes[i] : i \in 1..Len(bytes)}) >= 182

\* isAlreadyCompressed(data)
isAlreadyCompressed(b) ==
    IF BufLen(b) < 4 THEN FALSE
    ELSE IF b.layers = <<>> /\ \E sig \in Signatures : HasPrefix(b.bytes, sig) THEN TRUE
    ELSE b.layers = <<>> /\ HighEntropy(b.bytes)

\* compressAlreadyCompressedData: the LZ4 block if it is shorter than the
\* data, else the fast ZSTD frame if that is shorter, else the data itself.
compressAlreadyCompressedData(b) ==
    IF BufLen(CodecCompress("LZ4", b)) < BufLen(b) THEN CodecCompress("LZ4", b)
    ELSE IF BufLen(CodecCompress("ZSTD", b)) < BufLen(b) THEN CodecCompress("ZSTD", b)
    ELSE b

\* compressHybrid: LZ4, then ZSTD, then XZ if the ZSTD frame is over 1024
\* bytes and XZ makes it shorter.
HybridStage2(b) == CodecCompress("ZSTD", CodecCompress("LZ4", b))

compressHybrid(b) ==
    IF isAlreadyCompressed(b) THEN compressAlreadyCompressedData(b)
    ELSE IF /\ BufLen(HybridStage2(b)) > 1024
            /\ BufLen(CodecCompress("XZ", HybridStage2(b))) < BufLen(HybridStage2(b))
         THEN CodecCompress("XZ", HybridStage2(b))
         ELSE HybridStage2(b)

\* decompressHybrid: XZ if the data is an XZ stream, then ZSTD, then LZ4.
AfterXZ(b) == IF CodecAccepts("XZ", b) THEN CodecDecompress("XZ", b) ELSE b

HybridAccepts(b, originalSize) ==
    /\ CodecAccepts("ZSTD", AfterXZ(b))
    /\ LZ4Accepts(CodecDecompress("ZSTD", AfterXZ(b)), originalSize)

decompressHybrid(b) == CodecDecompress("LZ4", CodecDecompress("ZSTD", AfterXZ(b)))

\* isHighlyRepetitive(sample): some byte fills more than 70% of the first 100.
isHighlyRepetitive(bytes) ==
    IF Len(bytes) < 100 THEN FALSE
    ELSE \E v \in {bytes[i] : i \in 1..100} :
           Cardinality({i \in 1..100 : bytes[i] = v}) * 10 > 700

\* isBinaryData(sample): more than 2 NUL bytes among the first 50.
isBinaryData(bytes) ==
    IF Len(bytes) < 50 THEN FALSE
    ELSE Cardinality({i \in 1..50 : bytes[i] = 0}) > 2

\* sample := data, or data[:8192] for a longer buffer.
Sample(bytes) == IF Len(bytes) > 8192 THEN SubSeq(bytes, 1, 8192) ELSE bytes

\* A selection that asked for NUL bytes before it asked for repetition.
selectBinaryFirst(bytes) ==
    IF Len(bytes) < SmallFile THEN "LZ4"
    ELSE IF isAlreadyCompressed(Raw(bytes)) THEN "LZ4"
    ELSE IF isBinaryData(Sample(bytes)) THEN "ZSTD"
    ELSE IF isHighlyRepetitive(Sample(bytes)) THEN "XZ"
    ELSE "HYBRID"

\* selectOptimalMethod(data)
selectOptimalMethod(bytes) ==
    IF Len(bytes) < SmallFile THEN "LZ4"
    ELSE IF isAlreadyCompressed(Raw(bytes)) THEN "LZ4"
    ELSE IF isHighlyRepetitive(Sample(bytes)) THEN "XZ"
    ELSE IF isBinaryData(Sample(bytes)) THEN "ZSTD"
    ELSE "HYBRID"

\* Buffers of SmallFile bytes, one for each branch selectOptimalMethod has
\* for such a buffer: one that starts with a signature byte, one of a single
\* value, one with NUL bytes throughout, one of two letters in turn, and one
\* in which all 256 byte values are equally frequent (entropy 8).
LargeBufs ==
    {[i \in 1..SmallFile |-> 71],
     [i \in 1..SmallFile |-> (i * 7) % 256],
     [i \in 1..SmallFile |-> 65],
     [i \in 1..SmallFile |-> IF i % 2 = 1 THEN 65 ELSE 0],
     [i \in 1..SmallFile |-> IF i % 4 < 2 THEN 65 ELSE 72]}

\* processedData: the buffer after the optional pre-filter.
Processed(pf, data) == IF pf THEN preFilterData(data) ELSE data

\* var method = fr.method; ADAPTIVE is replaced by the selected method.
EffectiveMethod(m, bytes) == IF m = "ADAPTIVE" THEN selectOptimalMethod(bytes) ELSE m

\* A header that recorded the method the FileReducer was configured with.
HeaderMethodConfigured(configured, used) == configured

\* The method handed to addCompressionHeader: the local method, not fr.method.
HeaderMethod(configured, used) == used

\* A ReduceFileSize that stored the selected method in the FileReducer.
MethodOverwritten(configured, used) == used

\* fr.method after ReduceFileSize: the selected method lives in the local
\* variable method, fr.method is not assigned.
MethodAfterCall(configured, used) == configured

\* The switch of ReduceFileSize over the method.
CompressWith(m, b) == IF m = "HYBRID" THEN compressHybrid(b) ELSE CodecCompress(m, b)

\* The switch of RestoreOriginalSize over the method read from the header.
DecompressAccepts(m, b, originalSize) ==
    IF m = "HYBRID" THEN HybridAccepts(b, originalSize)
    ELSE IF m = "LZ4" THEN LZ4Accepts(b, originalSize)
    ELSE CodecAccepts(m, b)

DecompressWith(m, b) == IF m = "HYBRID" THEN decompressHybrid(b) ELSE CodecDecompress(m, b)

\* decompressLZ4 reaches make([]byte, originalSize) with a negative size: the
\* LZ4 case at once, the HYBRID case after its ZSTD stage accepted the data.
MakePanics(m, b, originalSize) ==
    /\ originalSize < 0
    /\ \/ m = "LZ4"
       \/ m = "HYBRID" /\ CodecAccepts("ZSTD", AfterXZ(b))

\* addCompressionHeader: magic FF FE, the method byte, version 1, the
\* original size, then the compressed data; len is the length of the whole.
addCompressionHeader(b, m, originalSize) ==
    [magic |-> <<255, 254>>, method |-> MethodByte(m), version |-> 1,
     originalSize |-> originalSize, data |-> b, len |-> HeaderSize + BufLen(b)]

NoContainer ==
    [magic |-> <<>>, method |-> 0, version |-> 0, originalSize |-> 0, data |-> Raw(<<>>),
     len |-> 0]

EmptyError == "compressed data is empty"
ShortError == "failed to extract compression header: data too short for header"
MagicError == "failed to extract compression header: invalid magic bytes"
VersionError == "failed to extract compression header: unsupported version"
MethodError == "unsupported compression method in header"
DecompressionError == "decompression failed"
SizeError == "decompressed size mismatch"
PanicError == "panic: makeslice: len out of range"

\* An extraction that reported every malformed header alike.
HeaderErrorLumped(c) ==
    IF c.len < HeaderSize \/ c.magic /= <<255, 254>> \/ c.version /= 1
    THEN "failed to extract compression header" ELSE NoErr

\* extractCompressionHeader as RestoreOriginalSize wraps its error: the
\* length, the magic bytes and the version are verified, in this order.
HeaderError(c) ==
    IF c.len < HeaderSize THEN ShortError
    ELSE IF c.magic /= <<255, 254>> THEN MagicError
    ELSE IF c.version /= 1 THEN VersionError
    ELSE NoErr

HeaderOk(c) == HeaderError(c) = NoErr

\* A size comparison that accepted every length.
SizeAlwaysMatches(n, originalSize) == TRUE

\* int64(len(decompressed)) != originalSize, negated.
SizeMatches(n, originalSize) == n = originalSize

\* A FileReducer, the buffer it is given, and a second FileReducer that
\* restores: restoreFilter is the second one's enablePreFilter. resultMethod
\* is CompressionResult.Method, selected the value selectOptimalMethod
\* returned, tamper what was done to the container in between.
NoReducer ==
    [pc |-> "none", method |-> "GZIP", enablePreFilter |-> TRUE, data |-> <<>>,
     out |-> NoContainer, restored |-> <<>>, err |-> NoErr,
     restoreFilter |-> TRUE, resultMethod |-> "none", selected |-> "none",
     tamper |-> "none"]

\* ReduceFileSize(data)
ReduceFileSize ==
    /\ fr.pc = "new"
    /\ LET processed == Processed(fr.enablePreFilter, fr.data)
           method == EffectiveMethod(fr.method, processed)
       IN fr' = IF Len(fr.data) = 0
                THEN [fr EXCEPT !.pc = "failed", !.err = "input data is empty"]
                ELSE IF method \notin Methods
                THEN [fr EXCEPT !.pc = "failed", !.err = "unsupported compression method"]
                ELSE [fr EXCEPT
                        !.pc = "reduced",
                        !.out = addCompressionHeader(CompressWith(method, Raw(processed)),
                                                     HeaderMethod(fr.method, method),
                                                     Len(fr.data)),
                        !.resultMethod = method,
                        !.method = MethodAfterCall(fr.method, method)]
    /\ UNCHANGED <<enc, th, pool, storage, encAtCall, saved, fm>>
    /\ UNCHANGED batchVars

\* selectOptimalMethod applied to a buffer of SmallFile bytes, as
\* ReduceFileSize applies it under ADAPTIVE.
SelectOptimal ==
    /\ fr.pc = "new"
    /\ fr.method = "ADAPTIVE"
    /\ \E d \in LargeBufs :
         fr' = [fr EXCEPT !.pc = "selected", !.data = d,
                          !.selected = selectOptimalMethod(Processed(fr.enablePreFilter, d))]
    /\ UNCHANGED <<enc, th, pool, storage, encAtCall, saved, fm>>
    /\ UNCHANGED batchVars

\* What can happen to a container between the two calls: cut to nothing or
\* to less than a header, another magic byte, version, method byte, or
\* recorded size.
TamperKinds16 ==
    {"empty", "truncated", "magic", "version", "method", "size_plus", "size_minus",
     "size_negative"}

TamperedContainer(c, kind) ==
    CASE kind = "empty" -> [c EXCEPT !.len = 0]
      [] kind = "truncated" -> [c EXCEPT !.len = HeaderSize - 1]
      [] kind = "magic" -> [c EXCEPT !.magic = <<255, 255>>]
      [] kind = "version" -> [c EXCEPT !.version = 2]
      [] kind = "method" -> [c EXCEPT !.method = MethodByte("ADAPTIVE")]
      [] kind = "size_plus" -> [c EXCEPT !.originalSize = @ + 1]
      [] kind = "size_minus" -> [c EXCEPT !.originalSize = @ - 1]
      [] kind = "size_negative" -> [c EXCEPT !.originalSize = -1]

\* The container is changed before it is handed to RestoreOriginalSize.
Tamper ==
    /\ fr.pc = "reduced"
    /\ \E kind \in TamperKinds16 :
         fr' = [fr EXCEPT !.pc = "tampered", !.tamper = kind,
                          !.out = TamperedContainer(fr.out, kind)]
    /\ UNCHANGED <<enc, th, pool, storage, encAtCall, saved, fm>>
    /\ UNCHANGED batchVars

\* What RestoreOriginalSize returns for a container whose header it accepted.
RestoredBytes(c) ==
    IF fr.restoreFilter
    THEN reversePreFilter(DecompressWith(MethodOfByte(c.method), c.data).bytes)
    ELSE DecompressWith(MethodOfByte(c.method), c.data).bytes

\* RestoreOriginalSize(compressedData), given what ReduceFileSize returned.
RestoreOriginalSize ==
    /\ fr.pc \in {"reduced", "tampered"}
    /\ fr' = IF fr.out.len = 0
             THEN [fr EXCEPT !.pc = "restored", !.err = EmptyError]
             ELSE IF ~HeaderOk(fr.out)
             THEN [fr EXCEPT !.pc = "restored", !.err = HeaderError(fr.out)]
             ELSE IF MethodOfByte(fr.out.method) \notin Methods
             THEN [fr EXCEPT !.pc = "restored", !.err = MethodError]
             ELSE IF MakePanics(MethodOfByte(fr.out.method), fr.out.data,
                                fr.out.originalSize)
             THEN [fr EXCEPT !.pc = "restored", !.err = PanicError]
             ELSE IF ~DecompressAccepts(MethodOfByte(fr.out.method), fr.out.data,
                                        fr.out.originalSize)
             THEN [fr EXCEPT !.pc = "restored", !.err = DecompressionError]
             ELSE IF ~SizeMatches(Len(RestoredBytes(fr.out)), fr.out.originalSize)
             THEN [fr EXCEPT !.pc = "restored", !.err = SizeError]
             ELSE [fr EXCEPT !.pc = "restored", !.restored = RestoredBytes(fr.out)]
    /\ UNCHANGED <<enc, th, pool, storage, encAtCall, saved, fm>>
    /\ UNCHANGED batchVars

\* ----------------------------------------------------------- FileManager
\* A *Config as the FileManager reads it: the two secrets, or a nil pointer.
ConfigOf(key, pepper) == [nil |-> FALSE, key |-> key, pepper |-> pepper]

NilConfig == [nil |-> TRUE, key |-> <<>>, pepper |-> <<>>]

\* DefaultConfig(): the compiled-in _privateKey and _privatePepper.
DefaultConfig == ConfigOf(TheKey, PepperA)

\* A FileManager that NewFileManager returned for DefaultConfig's secrets.
\* encId names the Encryptor instance held; prevConfig, prevEncId, arg, lastOp
\* and rotations are history.
InitialManager ==
    [made |-> TRUE, config |-> DefaultConfig, encId |-> 1, err |-> NoErr,
     lastOp |-> "NewFileManager", arg |-> DefaultConfig,
     prevConfig |-> NilConfig, prevEncId |-> 0, rotations |-> 0]

NoSaved == [has |-> FALSE, data |-> <<>>]

\* No batch call is running.
NoBatch ==
    [kind |-> "none", bound |-> 0, n |-> 0, fail |-> 0, dst |-> BadLoc,
     decrypt |-> FALSE, overwrite |-> FALSE, mkdirs |-> FALSE]

\* NewEncryptor(key, pepper): a random temporary salt and updateCipher(tempSalt).
Init ==
    /\ \E s \in Salts : enc = NewEncryptorWith(TheKey, PepperA, s)
    /\ th = [t \in Threads |-> IdleThread]
    /\ pool = {}
    /\ storage = [l \in Locs |-> NoFile]
    /\ encAtCall = enc
    /\ fr = NoReducer
    /\ fm = InitialManager
    /\ saved = [l \in Locs |-> NoSaved]
    /\ batch = NoBatch
    /\ main = [pc |-> "none", i |-> 0, j |-> 0]
    /\ results = <<>>
    /\ sem = 0
    /\ wg = 0
    /\ errChan = <<>>

\* Goroutines call Encrypt and Decrypt on one shared Encryptor with no
\* synchronisation between them.
Next ==
    \E t \in Callers :
        \/ CallEncrypt(t)
        \/ CallDecrypt(t)
        \/ UpdSalt(t)
        \/ UpdKey(t)
        \/ UpdGcm(t)
        \/ Seal(t)
        \/ Open(t)
        \/ Return(t)

Spec == Init /\ [][Next]_vars

\* C1: a Decrypt of a container Encrypt returned never fails and returns the
\* plaintext that was passed to that Encrypt call.
C1_DecryptNeverFails ==
    \A t \in Callers :
        (th[t].op = "Decrypt" /\ th[t].pc = "ret") =>
            (th[t].err = NoErr /\ th[t].data = th[t].blob.pt)

\* ------------------------------------------------------------ SecureFile
ReadError == "failed to read file"
DecompressError == "failed to decompress data"
DirError == "failed to create directory"

\* A caller enters SaveEncrypted on a SecureFile (data, location): Encrypt
\* comes first, with generateSalt and updateCipher(salt).
CallSave(t) ==
    /\ th[t].pc = "idle"
    /\ \E d \in Plaintexts, l \in CallerLocs, s \in Salts :
         th' = [th EXCEPT ![t] = [IdleThread EXCEPT !.pc = "upd_salt", !.op = "Save",
                                                    !.stage = "enc", !.data = d, !.salt = s,
                                                    !.loc = l]]
    /\ UNCHANGED <<enc, pool, storage, saved>>
    /\ encAtCall' = enc
    /\ UNCHANGED <<fr, fm>>
    /\ UNCHANGED batchVars

\* SaveEncrypted after Encrypt: Compress, ensureDirectory, os.WriteFile.
SaveWrite(t) ==
    /\ th[t].pc = "save_write"
    /\ IF th[t].loc = BadLoc
       THEN /\ th' = [th EXCEPT ![t].err = DirError, ![t].pc = "ret"]
            /\ UNCHANGED <<storage, saved>>
       ELSE /\ storage' = [storage EXCEPT ![th[t].loc] = Compress(th[t].blob)]
            /\ saved' = [saved EXCEPT ![th[t].loc] = [has |-> TRUE, data |-> th[t].data]]
            /\ th' = [th EXCEPT ![t].err = NoErr, ![t].pc = "ret"]
    /\ UNCHANGED <<enc, pool>>
    /\ UNCHANGED <<encAtCall, fr, fm>>
    /\ UNCHANGED batchVars

\* A caller enters LoadDecrypted on a SecureFile (location).
CallLoad(t) ==
    /\ th[t].pc = "idle"
    /\ \E l \in CallerLocs :
         th' = [th EXCEPT ![t] = [IdleThread EXCEPT !.pc = "load_read", !.op = "Load",
                                                    !.loc = l]]
    /\ UNCHANGED <<enc, pool, storage, saved>>
    /\ encAtCall' = enc
    /\ UNCHANGED <<fr, fm>>
    /\ UNCHANGED batchVars

FileExists(l) == l /= BadLoc /\ storage[l] /= NoFile

\* LoadDecrypted up to Decrypt's updateCipher: os.ReadFile, Decompress, and
\* Decrypt's length check.
LoadRead(t) ==
    /\ th[t].pc = "load_read"
    /\ th' = [th EXCEPT ![t] =
                IF ~FileExists(th[t].loc)
                THEN [th[t] EXCEPT !.err = ReadError, !.pc = "ret"]
                ELSE IF ~DecompressOk(storage[th[t].loc])
                THEN [th[t] EXCEPT !.err = DecompressError, !.pc = "ret"]
                ELSE EnterDecrypt(th[t], Decompress(storage[th[t].loc]))]
    /\ UNCHANGED <<enc, pool, storage, saved>>
    /\ UNCHANGED <<encAtCall, fr, fm>>
    /\ UNCHANGED batchVars

\* ------------------------------------------------- FileManager copy, delete
ExistsError == "destination file already exists"
SourceError == "failed to read source file"
WriteError == "failed to write file"
DeleteError == "failed to delete file"

\* CopyFileToNewLocation up to the copy itself: EnsureDirectory when asked
\* for, and the os.Stat test of the destination unless overwriting is allowed.
CopyStat(t) ==
    /\ th[t].pc = "copy_stat"
    /\ th' = [th EXCEPT ![t] =
                IF batch.mkdirs /\ th[t].dst = BadLoc
                THEN [th[t] EXCEPT !.err = DirError, !.pc = "ret"]
                ELSE IF ~batch.overwrite /\ FileExists(th[t].dst)
                THEN [th[t] EXCEPT !.err = ExistsError, !.pc = "ret"]
                ELSE IF th[t].op = "CopyDec"
                THEN [th[t] EXCEPT !.pc = "load_read"]
                ELSE [th[t] EXCEPT !.pc = "copy_read"]]
    /\ UNCHANGED <<enc, pool, storage, saved, encAtCall, fr, fm>>
    /\ UNCHANGED batchVars

\* copyEncryptedFile: os.ReadFile of the source.
CopyRead(t) ==
    /\ th[t].pc = "copy_read"
    /\ th' = [th EXCEPT ![t] =
                IF ~FileExists(th[t].loc)
                THEN [th[t] EXCEPT !.err = SourceError, !.pc = "ret"]
                ELSE [th[t] EXCEPT !.blob = storage[th[t].loc], !.pc = "copy_write"]]
    /\ UNCHANGED <<enc, pool, storage, saved, encAtCall, fr, fm>>
    /\ UNCHANGED batchVars

\* The bytes a copy writes: the decrypted data, or the file as it was read.
CopyBytes(r) == IF r.op = "CopyDec" THEN RawBlob(r.data) ELSE r.blob

\* copyWithDecryption / copyEncryptedFile: os.WriteFile of the destination.
CopyWrite(t) ==
    /\ th[t].pc = "copy_write"
    /\ IF th[t].dst = BadLoc
       THEN /\ th' = [th EXCEPT ![t].err = WriteError, ![t].pc = "ret"]
            /\ UNCHANGED <<storage, saved>>
       ELSE /\ storage' = [storage EXCEPT ![th[t].dst] = CopyBytes(th[t])]
            /\ saved' = [saved EXCEPT ![th[t].dst] = NoSaved]
            /\ th' = [th EXCEPT ![t].err = NoErr, ![t].pc = "ret"]
    /\ UNCHANGED <<enc, pool, encAtCall, fr, fm>>
    /\ UNCHANGED batchVars

\* SecureFile.Delete: os.Remove.
Delete(t) ==
    /\ th[t].pc = "delete"
    /\ IF ~FileExists(th[t].loc)
       THEN /\ th' = [th EXCEPT ![t].err = DeleteError, ![t].pc = "ret"]
            /\ UNCHANGED <<storage, saved>>
       ELSE /\ storage' = [storage EXCEPT ![th[t].loc] = NoFile]
            /\ saved' = [saved EXCEPT ![th[t].loc] = NoSaved]
            /\ th' = [th EXCEPT ![t].err = NoErr, ![t].pc = "ret"]
    /\ UNCHANGED <<enc, pool, encAtCall, fr, fm>>
    /\ UNCHANGED batchVars

\* ------------------------------------------------------------ batch calls
MaxBound == 2        \* largest concurrency bound a caller passes

FMKinds == {"CreateMultiple", "DecryptMultiple", "ReEncryptMultiple", "BatchCopy"}
PFKinds == {"SaveAll", "LoadAll", "DeleteAll"}
BoundArgs == -1..MaxBound

EffectiveBound(k) == IF k <= 0 THEN DefaultConcurrency ELSE k

\* The file each of the locations 1..NumLocs holds when a batch starts, left
\* there by an earlier SaveEncrypted.
FileData(l) == IF l % 2 = 1 THEN <<65>> ELSE <<71>>

FileSalt(l) == ((l - 1) % NumSalts) + 1

InitialFile(l) ==
    Compress(SealedContainer(DeriveKey(TheKey, PepperA, FileSalt(l)), FileSalt(l), 1,
                             FileData(l)))

\* The input slice. Operation i names location ((i-1) mod NumLocs)+1, except
\* the one operation batch.fail (if any), which is engineered to fail: it
\* reads a file that does not exist, or writes where no directory can be made.
WritesOnly(kind) == kind \in {"CreateMultiple", "SaveAll"}

FailLoc(kind) == IF WritesOnly(kind) THEN BadLoc ELSE FreshLoc

OpLoc(i) == IF i = batch.fail THEN FailLoc(batch.kind) ELSE ((i - 1) % NumLocs) + 1

OpData(i) == IF i % 3 = 1 THEN <<65>> ELSE IF i % 3 = 2 THEN <<71>> ELSE <<>>

CopyConfigs ==
    {[dst |-> d, decrypt |-> dec, overwrite |-> ow, mkdirs |-> mk] :
        d \in {1, FreshLoc}, dec \in BOOLEAN, ow \in BOOLEAN, mk \in {FALSE}}
    \cup {[dst |-> BadLoc, decrypt |-> FALSE, overwrite |-> TRUE, mkdirs |-> mk] :
        mk \in BOOLEAN}

BatchInputs ==
    {[kind |-> k, bound |-> b, n |-> n, fail |-> f, dst |-> c.dst, decrypt |-> c.decrypt,
      overwrite |-> c.overwrite, mkdirs |-> c.mkdirs] :
        k \in FMKinds \cup PFKinds, b \in BoundArgs, n \in 0..MaxTasks, f \in 0..MaxTasks,
        c \in CopyConfigs}

ValidInput(b) ==
    /\ b.fail <= b.n
    /\ b.kind /= "BatchCopy" =>
         (b.dst = BadLoc /\ ~b.decrypt /\ b.overwrite /\ ~b.mkdirs)

\* LargeBatch copies, under the default bound, to a destination whose
\* directory cannot be made.
LargeBatchInput ==
    [kind |-> "BatchCopy", bound |-> 0, n |-> LargeBatch, fail |-> 0, dst |-> BadLoc,
     decrypt |-> FALSE, overwrite |-> TRUE, mkdirs |-> TRUE]

ZeroResult == [loc |-> BadLoc, dst |-> BadLoc, data |-> <<>>, err |-> NoErr, success |-> FALSE]

\* results := make([]FileOperation, len(operations)); copy(results, operations)
\* BatchCopyFiles and ProcessFiles make a slice of zero values instead.
InitialResult(i) ==
    IF batch.kind \in {"CreateMultiple", "DecryptMultiple", "ReEncryptMultiple"}
    THEN [ZeroResult EXCEPT !.loc = OpLoc(i),
                            !.data = IF batch.kind = "CreateMultiple" THEN OpData(i) ELSE <<>>]
    ELSE ZeroResult

\* The single-file operation task i runs once admitted, at its first step.
\* s is the salt generateSalt returns if the operation starts with Encrypt.
StartOp(i, s) ==
    LET r == [IdleThread EXCEPT !.loc = OpLoc(i)] IN
    CASE batch.kind \in {"CreateMultiple", "SaveAll"} ->
           [r EXCEPT !.pc = "upd_salt", !.op = "Save", !.stage = "enc", !.data = OpData(i),
                     !.salt = s]
      [] batch.kind \in {"DecryptMultiple", "LoadAll"} ->
           [r EXCEPT !.pc = "load_read", !.op = "Load"]
      [] batch.kind = "ReEncryptMultiple" ->
           [r EXCEPT !.pc = "load_read", !.op = "ReEncrypt"]
      [] batch.kind = "BatchCopy" ->
           [r EXCEPT !.pc = "copy_stat", !.op = IF batch.decrypt THEN "CopyDec" ELSE "CopyEnc",
                     !.dst = batch.dst]
      [] batch.kind = "DeleteAll" ->
           [r EXCEPT !.pc = "delete", !.op = "Delete"]

\* for i := range results { wg.Add(1); go func(index int) {...}(i) }
Spawn ==
    /\ main.pc = "run"
    /\ main.i <= batch.n
    /\ th' = [th EXCEPT ![main.i].pc = "acquire"]
    /\ wg' = IF batch.kind \in FMKinds THEN wg + 1 ELSE wg
    /\ main' = [main EXCEPT !.i = main.i + 1]
    /\ UNCHANGED <<enc, pool, storage, saved, encAtCall, fr, fm, batch, results, sem, errChan>>

\* A semaphore on which a send never blocks.
SemNeverFull == TRUE

\* semaphore := make(chan struct{}, maxConcurrency): a send blocks while the
\* channel holds maxConcurrency values.
SemHasRoom == sem < EffectiveBound(batch.bound)

\* semaphore <- struct{}{}, and the task's operation begins.
Acquire(t) ==
    /\ th[t].pc = "acquire"
    /\ SemHasRoom
    /\ sem' = sem + 1
    /\ \E s \in Salts : th' = [th EXCEPT ![t] = StartOp(t, s)]
    /\ UNCHANGED <<enc, pool, storage, saved, encAtCall, fr, fm, batch, main, results, wg, errChan>>

\* A task that wrote the element named by the spawning loop's variable
\* instead of by its own parameter.
ResultSlotLoopVar(t) == IF main.i <= batch.n THEN main.i ELSE batch.n

\* The element of results that task t writes: op := &results[index].
ResultSlot(t) == t

\* What a FileManager task writes into its element when its operation returned.
TaskResult(old, r) ==
    CASE batch.kind = "BatchCopy" ->
           [loc |-> r.loc, dst |-> r.dst, data |-> <<>>, err |-> r.err,
            success |-> (r.err = NoErr)]
      [] batch.kind = "DecryptMultiple" /\ r.err = NoErr ->
           [old EXCEPT !.data = r.data, !.err = NoErr]
      [] OTHER -> [old EXCEPT !.err = r.err]

\* A FileManager task: the operation returned, the task records the outcome,
\* and the deferred <-semaphore runs.
Finish(t) ==
    /\ batch.kind \in FMKinds
    /\ th[t].pc = "ret"
    /\ results' = [results EXCEPT ![ResultSlot(t)] = TaskResult(results[ResultSlot(t)], th[t])]
    /\ sem' = sem - 1
    /\ th' = [th EXCEPT ![t].pc = "wgdone"]
    /\ UNCHANGED <<enc, pool, storage, saved, encAtCall, fr, fm, batch, main, wg, errChan>>

\* A FileManager task: the deferred wg.Done(), the last thing the task does.
WgDone(t) ==
    /\ th[t].pc = "wgdone"
    /\ wg' = wg - 1
    /\ th' = [th EXCEPT ![t].pc = "done"]
    /\ UNCHANGED <<enc, pool, storage, saved, encAtCall, fr, fm, batch, main, results, sem, errChan>>

\* A ProcessFiles task: errChan <- err (or nil); the channel has room for all.
Send(t) ==
    /\ batch.kind \in PFKinds
    /\ th[t].pc = "ret"
    /\ errChan' = Append(errChan, th[t].err)
    /\ th' = [th EXCEPT ![t].pc = "release"]
    /\ UNCHANGED <<enc, pool, storage, saved, encAtCall, fr, fm, batch, main, results, sem, wg>>

\* A ProcessFiles task: the deferred <-semaphore, the last thing the task does.
Release(t) ==
    /\ th[t].pc = "release"
    /\ sem' = sem - 1
    /\ th' = [th EXCEPT ![t].pc = "done"]
    /\ UNCHANGED <<enc, pool, storage, saved, encAtCall, fr, fm, batch, main, results, wg, errChan>>

\* ProcessFiles: errors[i] = <-errChan, for i = 0 .. len(files)-1.
Collect ==
    /\ batch.kind \in PFKinds
    /\ main.pc = "run"
    /\ main.i > batch.n
    /\ main.j <= batch.n
    /\ errChan /= <<>>
    /\ results' = [results EXCEPT ![main.j].err = Head(errChan)]
    /\ errChan' = Tail(errChan)
    /\ main' = [main EXCEPT !.j = main.j + 1]
    /\ UNCHANGED <<enc, th, pool, storage, saved, encAtCall, fr, fm, batch, sem, wg>>

\* The batch call returns: wg.Wait() has returned (FileManager), or the
\* collecting loop has ended (ProcessFiles).
BatchReturn ==
    /\ main.pc = "run"
    /\ main.i > batch.n
    /\ IF batch.kind \in FMKinds THEN wg = 0 ELSE main.j > batch.n
    /\ main' = [main EXCEPT !.pc = "returned"]
    /\ UNCHANGED <<enc, th, pool, storage, saved, encAtCall, fr, fm, batch, results, sem, wg, errChan>>

\* A batch call starts on a FileManager whose earlier saves left a file at
\* each of the locations 1..NumLocs.
InitBatch ==
    /\ enc = NewEncryptorWith(TheKey, PepperA, FileSalt(NumLocs))
    /\ th = [t \in Threads |-> IdleThread]
    /\ pool = {}
    /\ storage = [l \in Locs |-> IF l = FreshLoc THEN NoFile ELSE InitialFile(l)]
    /\ encAtCall = enc
    /\ fr = NoReducer
    /\ fm = InitialManager
    /\ saved = [l \in Locs |-> IF l = FreshLoc THEN NoSaved
                                ELSE [has |-> TRUE, data |-> FileData(l)]]
    /\ batch \in {b \in BatchInputs : ValidInput(b)} \cup {LargeBatchInput}
    /\ main = [pc |-> "run", i |-> 1, j |-> 1]
    /\ results = [i \in 1..batch.n |-> InitialResult(i)]
    /\ sem = 0
    /\ wg = 0
    /\ errChan = <<>>

NextBatch ==
    \/ Spawn
    \/ Collect
    \/ BatchReturn
    \/ \E t \in Tasks :
        \/ Acquire(t)
        \/ UpdSalt(t)
        \/ UpdKey(t)
        \/ UpdGcm(t)
        \/ Seal(t)
        \/ Open(t)
        \/ SaveWrite(t)
        \/ LoadRead(t)
        \/ CopyStat(t)
        \/ CopyRead(t)
        \/ CopyWrite(t)
        \/ Delete(t)
        \/ Finish(t)
        \/ WgDone(t)
        \/ Send(t)
        \/ Release(t)

SpecBatch == InitBatch /\ [][NextBatch]_vars

\* A task holds an admission slot from its send on the semaphore to the
\* deferred receive.
Admitted(t) == th[t].pc \notin {"idle", "acquire", "wgdone", "done"}

\* C3: a create, decrypt or re-encrypt batch with exactly one operation
\* engineered to fail and the others valid returns n results, of which exactly
\* that one carries an error and the others are successful with the data of
\* their file.
C3_BatchIndependence ==
    (/\ main.pc = "returned"
     /\ batch.kind \in {"CreateMultiple", "DecryptMultiple", "ReEncryptMultiple"}
     /\ batch.fail /= 0)
    => /\ Len(results) = batch.n
       /\ \A i \in 1..batch.n : (results[i].err /= NoErr) <=> (i = batch.fail)
       /\ \A i \in 1..batch.n :
            (batch.kind = "DecryptMultiple" /\ i /= batch.fail) =>
                results[i].data = FileData(OpLoc(i))

\* C4: a FileManager batch returns as many results as it was given
\* operations, and result i holds the names of operation i and the outcome
\* (error, loaded data, success flag) of the task that ran operation i.
C4_ResultsIndexAligned ==
    (main.pc = "returned" /\ batch.kind \in FMKinds) =>
        /\ Len(results) = batch.n
        /\ \A i \in 1..batch.n :
             /\ results[i].loc = OpLoc(i)
             /\ results[i].err = th[i].err
             /\ batch.kind = "BatchCopy" =>
                  (results[i].dst = batch.dst /\ results[i].success = (th[i].err = NoErr))
             /\ (batch.kind = "DecryptMultiple" /\ th[i].err = NoErr) =>
                  results[i].data = th[i].data

\* C4 witness: a DecryptMultipleFiles call has returned with a failed result
\* and a successful one that carries loaded data.
C4_Witness ==
    /\ main.pc = "returned" /\ batch.kind = "DecryptMultiple" /\ batch.n = MaxTasks
    /\ \E i, j \in 1..batch.n :
         /\ results[i].err /= NoErr
         /\ results[j].err = NoErr /\ results[j].data = FileData(OpLoc(j))

\* C5: ProcessFiles returns len(files) outcomes and errors[i] is the outcome
\* of processing files[i].
C5_ErrorsIndexAligned ==
    (main.pc = "returned" /\ batch.kind \in PFKinds) =>
        /\ Len(results) = batch.n
        /\ \A i \in 1..batch.n : results[i].err = th[i].err

\* C6: at most K tasks hold an admission slot, K being the caller's bound if
\* it is positive and 5 otherwise.
C6_AdmittedAtMostK ==
    Cardinality({t \in Tasks : Admitted(t)}) <= (IF batch.bound > 0 THEN batch.bound ELSE 5)

\* C6 witness: under the default bound five tasks hold a slot and a sixth
\* waits for one.
C6_Witness ==
    /\ batch.bound <= 0
    /\ Cardinality({t \in Tasks : Admitted(t)}) = 5
    /\ \E t \in Tasks : th[t].pc = "acquire"

\* C7: when a batch call returns, every task has finished its operation,
\* delivered its outcome and released its admission slot.
C7_AllFinishedAtReturn ==
    main.pc = "returned" =>
        /\ \A t \in 1..batch.n : th[t].pc = "done"
        /\ sem = 0


\* One caller makes its calls one after the other.
NextSeq ==
    \/ CallEncrypt(1)
    \/ CallDecrypt(1)
    \/ CallSave(1)
    \/ CallLoad(1)
    \/ UpdSalt(1)
    \/ UpdKey(1)
    \/ UpdGcm(1)
    \/ Seal(1)
    \/ Open(1)
    \/ SaveWrite(1)
    \/ LoadRead(1)
    \/ Return(1)

SpecSeq == Init /\ [][NextSeq]_vars

\* C2: Encrypt and Decrypt leave every field of the shared Encryptor as it
\* was before the call.
C2_EncryptorUnchangedByCall ==
    (th[1].op \in {"Encrypt", "Decrypt"} /\ th[1].pc = "ret") => enc = encAtCall

\* C8: sequential calls: Decrypt of a container that Encrypt(d) returned
\* yields d without error, whatever calls were made in between.
C8_SequentialRoundTrip ==
    (th[1].op = "Decrypt" /\ th[1].pc = "ret") =>
        (th[1].err = NoErr /\ th[1].data = th[1].blob.pt)

\* C8 witness: a Decrypt has returned the plaintext of a container whose salt
\* is not the one the Encryptor held when the call began (another call ran
\* in between).
C8_Witness ==
    /\ th[1].op = "Decrypt" /\ th[1].pc = "ret" /\ th[1].err = NoErr
    /\ th[1].data = th[1].blob.pt
    /\ encAtCall.currentSalt /= th[1].blob.salt

\* C10: a sequential LoadDecrypted at a location where SaveEncrypted last
\* succeeded with data d succeeds and yields d.
C10_SaveLoadRoundTrip ==
    (th[1].op = "Load" /\ th[1].pc = "ret" /\ th[1].loc /= BadLoc /\ saved[th[1].loc].has) =>
        (th[1].err = NoErr /\ th[1].data = saved[th[1].loc].data)

\* C10 witness: a load has returned the non-empty data of a save.
C10_Witness ==
    /\ th[1].op = "Load" /\ th[1].pc = "ret" /\ th[1].loc /= BadLoc
    /\ saved[th[1].loc].has /\ th[1].err = NoErr
    /\ th[1].data = saved[th[1].loc].data /\ th[1].data /= <<>>

\* ------------------------------------------- secrets, rotation, tampering
Keys == {TheKey, OtherKey}
Peppers == {PepperA, PepperB}

\* The containers an Encryptor holding (TheKey, PepperA) returned earlier.
EarlierContainers ==
    {SealedContainer(DeriveKey(TheKey, PepperA, s), s, 1, d) : s \in Salts, d \in Plaintexts}

\* A container changed on its way back to Decrypt: another salt in its first
\* SaltSize bytes, another nonce after them, or a flipped bit in the
\* ciphertext-and-tag region, which no key then authenticates.
TamperKinds == {"salt", "nonce", "ciphertext"}

Tampered(c, kind) ==
    CASE kind = "salt" -> [c EXCEPT !.salt = (c.salt % NumSalts) + 1]
      [] kind = "nonce" -> [c EXCEPT !.nonce = c.nonce + 1]
      [] kind = "ciphertext" -> [c EXCEPT !.key = NoKey]

\* A caller enters Decrypt with a tampered container.
CallDecryptTampered(t) ==
    /\ th[t].pc = "idle"
    /\ \E c \in pool, kind \in TamperKinds :
         th' = [th EXCEPT ![t] =
                  EnterDecrypt([IdleThread EXCEPT !.op = "Decrypt"], Tampered(c, kind))]
    /\ UNCHANGED <<enc, pool, storage, saved>>
    /\ encAtCall' = enc
    /\ UNCHANGED <<fr, fm>>
    /\ UNCHANGED batchVars

\* salt size + nonce size + tag size: the shortest container Encrypt returns.
MinContainerSize == SaltSize + NonceSize + TagSize

\* Lengths of buffers that no Encrypt call returned: empty, one byte less
\* than Decrypt's minSize, minSize, and one byte less than a container of
\* the empty plaintext.
ShortLens == {0, DecryptMinSize - 1, DecryptMinSize, MinContainerSize - 1}

ShortBuffer(n) == [RawBlob([i \in 1..n |-> 65]) EXCEPT !.salt = 1]

\* A caller enters Decrypt with a buffer shorter than any container.
CallDecryptShort(t) ==
    /\ th[t].pc = "idle"
    /\ \E n \in ShortLens :
         th' = [th EXCEPT ![t] =
                  EnterDecrypt([IdleThread EXCEPT !.op = "Decrypt"], ShortBuffer(n))]
    /\ UNCHANGED <<enc, pool, storage, saved>>
    /\ encAtCall' = enc
    /\ UNCHANGED <<fr, fm>>
    /\ UNCHANGED batchVars

\* The strings a caller passes to RotatePepper, the empty one included.
RotateArgs == Peppers \cup {<<>>}

\* FileManager.RotatePepper(newPepper) enters Encryptor.UpdatePepper:
\* e.pepper = []byte(newPepper), then updateCipher(e.currentSalt).
CallRotate(t) ==
    /\ th[t].pc = "idle"
    /\ fm.made
    /\ fm.rotations < MaxRotations
    /\ \E p \in RotateArgs \ {enc.pepper} :
         /\ enc' = [enc EXCEPT !.pepper = p]
         /\ th' = [th EXCEPT ![t] = [IdleThread EXCEPT !.pc = "upd_salt", !.op = "RotatePepper",
                                                       !.stage = "rot", !.data = p,
                                                       !.salt = enc.currentSalt]]
    /\ UNCHANGED <<pool, storage, saved>>
    /\ encAtCall' = enc
    /\ UNCHANGED <<fr, fm>>
    /\ UNCHANGED batchVars

\* RotatePepper after UpdatePepper returned: fm.config.Pepper = newPepper.
RotateConfig(t) ==
    /\ th[t].pc = "rot_config"
    /\ fm' = [fm EXCEPT !.config.pepper = th[t].data, !.rotations = @ + 1,
                        !.lastOp = "RotatePepper", !.err = NoErr]
    /\ th' = [th EXCEPT ![t].pc = "ret"]
    /\ UNCHANGED <<enc, pool, storage, saved, encAtCall, fr>>
    /\ UNCHANGED batchVars

\* The bytes a SecureFile made by CreateSecureFile holds in its Data field.
HeldData == <<72>>

\* sf.LoadDecrypted() on a SecureFile whose Data field already holds bytes.
CallLoadHolding(t) ==
    /\ th[t].pc = "idle"
    /\ \E l \in CallerLocs \cup {FreshLoc} :
         th' = [th EXCEPT ![t] = [IdleThread EXCEPT !.pc = "load_read", !.op = "Load",
                                                    !.loc = l, !.data = HeldData]]
    /\ UNCHANGED <<enc, pool, storage, saved>>
    /\ encAtCall' = enc
    /\ UNCHANGED <<fr, fm>>
    /\ UNCHANGED batchVars

\* A caller enters ReEncryptFile(path, filename): LoadSecureFileFromDisk first.
CallReEncrypt(t) ==
    /\ th[t].pc = "idle"
    /\ \E l \in CallerLocs :
         th' = [th EXCEPT ![t] = [IdleThread EXCEPT !.pc = "load_read", !.op = "ReEncrypt",
                                                    !.loc = l]]
    /\ UNCHANGED <<enc, pool, storage, saved>>
    /\ encAtCall' = enc
    /\ UNCHANGED <<fr, fm>>
    /\ UNCHANGED batchVars

\* An Encryptor made with one of the keys and PepperA; the containers and the
\* files are those an Encryptor holding (TheKey, PepperA) produced.
InitSecret ==
    /\ \E k \in Keys, s \in Salts : enc = NewEncryptorWith(k, PepperA, s)
    /\ th = [t \in Threads |-> IdleThread]
    /\ pool = EarlierContainers
    /\ storage = [l \in Locs |-> IF l = FreshLoc THEN NoFile ELSE InitialFile(l)]
    /\ encAtCall = enc
    /\ saved = [l \in Locs |-> IF l = FreshLoc THEN NoSaved
                                ELSE [has |-> TRUE, data |-> FileData(l)]]
    /\ batch = NoBatch
    /\ main = [pc |-> "none", i |-> 0, j |-> 0]
    /\ results = <<>>
    /\ sem = 0
    /\ wg = 0
    /\ errChan = <<>>
    /\ fr = NoReducer
    /\ fm = [InitialManager EXCEPT !.config = ConfigOf(enc.baseKey, PepperA),
                                   !.arg = ConfigOf(enc.baseKey, PepperA)]

\* One caller decrypts, loads, re-encrypts and rotates the pepper, one call
\* after the other.
NextSecret ==
    \/ CallDecrypt(1)
    \/ CallDecryptTampered(1)
    \/ CallDecryptShort(1)
    \/ CallLoad(1)
    \/ CallLoadHolding(1)
    \/ CallReEncrypt(1)
    \/ CallRotate(1)
    \/ UpdSalt(1)
    \/ UpdKey(1)
    \/ UpdGcm(1)
    \/ Seal(1)
    \/ Open(1)
    \/ SaveWrite(1)
    \/ LoadRead(1)
    \/ RotateConfig(1)
    \/ Return(1)

SpecSecret == InitSecret /\ [][NextSecret]_vars

\* The file at l opens under the Encryptor's present secret and holds d.
LoadsAs(l, d) ==
    /\ FileExists(l)
    /\ DecompressOk(storage[l])
    /\ OpenOk(DeriveKey(enc.baseKey, enc.pepper, Decompress(storage[l]).salt),
              Decompress(storage[l]))
    /\ Decompress(storage[l]).pt = d

\* C11: for a file saved under PepperA, after a rotation to another pepper
\* ReEncryptFile succeeds, and the file then loads under the present secret
\* with its original data.
C11_ReEncryptMigrates ==
    (/\ th[1].op = "ReEncrypt" /\ th[1].pc = "ret" /\ th[1].loc /= BadLoc
     /\ enc.baseKey = TheKey /\ enc.pepper /= PepperA)
    => (th[1].err = NoErr /\ LoadsAs(th[1].loc, FileData(th[1].loc)))

\* A Decrypt call has returned.
DecryptReturned == th[1].op = "Decrypt" /\ th[1].pc = "ret"

\* The container handed to the returned Decrypt is one of the earlier ones,
\* unchanged.
Untampered == th[1].blob \in EarlierContainers

\* C12: a container produced under (TheKey, PepperA) fails to decrypt with the
\* authentication error while the Encryptor holds another pepper, decrypts to
\* its plaintext whenever the Encryptor holds PepperA (again), and no step of
\* RotatePepper changes a stored container or file.
C12_RotationInvalidatesUntilReplayed ==
    /\ []((DecryptReturned /\ Untampered /\ enc.baseKey = TheKey) =>
            IF enc.pepper = PepperA
            THEN th[1].err = NoErr /\ th[1].data = th[1].blob.pt
            ELSE th[1].err = AuthError /\ th[1].data = <<>>)
    /\ [][(th[1].op = "RotatePepper" \/ th'[1].op = "RotatePepper") =>
            (pool' = pool /\ storage' = storage)]_vars

\* C12 witness: after a rotation away from PepperA and one back to it, a
\* Decrypt of an earlier container has returned its plaintext.
C12_Witness ==
    /\ DecryptReturned /\ Untampered /\ enc.baseKey = TheKey
    /\ fm.rotations >= 2 /\ enc.pepper = PepperA
    /\ th[1].err = NoErr /\ th[1].data = th[1].blob.pt /\ th[1].data /= <<>>

\* The ciphertext-and-tag region of the container was changed.
CiphertextModified == th[1].blob.enc /\ th[1].blob.key = NoKey
\* The salt in the container is not the one it was sealed under.
SaltModified == th[1].blob.key /= NoKey /\ th[1].blob.key.salt /= th[1].blob.salt
\* The nonce in the container is not the one it was sealed with.
NonceModified == th[1].blob.sealNonce /= th[1].blob.nonce
\* The Encryptor holds another key, or another pepper, than the container's.
WrongKey == enc.baseKey /= TheKey
WrongPepper == enc.pepper /= PepperA

\* C13: Decrypt of a container whose ciphertext-or-tag region was changed
\* returns the authentication error and no plaintext.
C13_TamperDetected ==
    (DecryptReturned /\ CiphertextModified) =>
        (th[1].err = AuthError /\ th[1].data = <<>>)

\* C13 witness: the Encryptor holds the container's own key and pepper, the
\* salt and the nonce are intact, only the ciphertext region was changed, and
\* Decrypt has returned the authentication error.
C13_Witness ==
    /\ DecryptReturned /\ CiphertextModified
    /\ ~WrongKey /\ ~WrongPepper /\ ~NonceModified
    /\ th[1].blob.pt /= <<>>
    /\ th[1].err = AuthError

\* C14: for a length-valid container, a wrong key, a wrong pepper, a modified
\* salt, a modified nonce and a modified ciphertext or tag all end Decrypt
\* with the one authentication error and no data.
C14_OpaqueFailure ==
    (/\ DecryptReturned /\ ~TooShort(th[1].blob)
     /\ (WrongKey \/ WrongPepper \/ SaltModified \/ NonceModified \/ CiphertextModified))
    => (th[1].err = AuthError /\ th[1].data = <<>>)

\* C14 witness: the only cause is a modified salt, and Decrypt has returned
\* the authentication error.
C14_Witness ==
    /\ DecryptReturned /\ ~TooShort(th[1].blob)
    /\ SaltModified /\ ~WrongKey /\ ~WrongPepper /\ ~NonceModified
    /\ th[1].err = AuthError

\* ------------------------------------------------ FileReducer round trip
\* NewFileReducer(method, level), EnableOptimizations(preFilter, _), and a
\* buffer to reduce.
InitReduce ==
    /\ enc = NewEncryptorWith(TheKey, PepperA, 1)
    /\ th = [t \in Threads |-> IdleThread]
    /\ pool = {}
    /\ storage = [l \in Locs |-> NoFile]
    /\ encAtCall = enc
    /\ saved = [l \in Locs |-> NoSaved]
    /\ batch = NoBatch
    /\ main = [pc |-> "none", i |-> 0, j |-> 0]
    /\ results = <<>>
    /\ sem = 0
    /\ wg = 0
    /\ errChan = <<>>
    /\ \E m \in Methods, pf \in BOOLEAN, d \in DataBufs :
         fr = [NoReducer EXCEPT !.pc = "new", !.method = m, !.enablePreFilter = pf,
                                !.restoreFilter = pf, !.data = d]
    /\ fm = InitialManager

NextReduce ==
    \/ ReduceFileSize
    \/ RestoreOriginalSize

SpecReduce == InitReduce /\ [][NextReduce]_vars

\* C9: for every non-empty buffer d and every concrete method, restoring what
\* ReduceFileSize(d) returned succeeds and returns exactly d, HYBRID on data
\* classified as already compressed included.
C9_ReduceRestoreRoundTrip ==
    (fr.pc = "restored" /\ fr.data /= <<>>) => (fr.err = NoErr /\ fr.restored = fr.data)

\* ------------------------------------------- FileReducer containers
\* A FileReducer of any configuration reduces a buffer; the container, as it
\* is or changed, is restored by a FileReducer of any other configuration.
InitContainer ==
    /\ enc = NewEncryptorWith(TheKey, PepperA, 1)
    /\ th = [t \in Threads |-> IdleThread]
    /\ pool = {}
    /\ storage = [l \in Locs |-> NoFile]
    /\ encAtCall = enc
    /\ saved = [l \in Locs |-> NoSaved]
    /\ batch = NoBatch
    /\ main = [pc |-> "none", i |-> 0, j |-> 0]
    /\ results = <<>>
    /\ sem = 0
    /\ wg = 0
    /\ errChan = <<>>
    /\ \E m \in ConfiguredMethods, pf \in BOOLEAN, rf \in BOOLEAN, d \in DataBufs :
         fr = [NoReducer EXCEPT !.pc = "new", !.method = m, !.enablePreFilter = pf,
                                !.restoreFilter = rf, !.data = d]
    /\ fm = InitialManager

NextContainer ==
    \/ ReduceFileSize
    \/ SelectOptimal
    \/ Tamper
    \/ RestoreOriginalSize

SpecContainer == InitContainer /\ [][NextContainer]_vars

\* RestoreOriginalSize has returned for the container as ReduceFileSize made it.
RestoredUntampered == fr.pc = "restored" /\ fr.tamper = "none"

\* C15: whatever the pre-filter flags of the reducing and of the restoring
\* FileReducer, restoring an unchanged container of a non-empty buffer
\* succeeds and returns the buffer (methods other than HYBRID).
C15_BlindRestoration ==
    (RestoredUntampered /\ fr.data /= <<>> /\ fr.resultMethod /= "HYBRID") =>
        (fr.err = NoErr /\ fr.restored = fr.data)

\* C16: RestoreOriginalSize of a buffer shorter than a header, or with other
\* magic bytes, or another version, or a method byte outside 0..7, returns an
\* error and no data, and the error of each cause differs from the errors of
\* the other causes (an empty buffer has an error of its own).
C16_HeaderValidation ==
    /\ Cardinality({EmptyError, ShortError, MagicError, VersionError, MethodError}) = 5
    /\ fr.pc = "restored" =>
         /\ fr.out.len = 0 => fr.err = EmptyError
         /\ (fr.out.len > 0 /\ fr.out.len < HeaderSize) => fr.err = ShortError
         /\ (fr.out.len >= HeaderSize /\ fr.out.magic /= <<255, 254>>) => fr.err = MagicError
         /\ (/\ fr.out.len >= HeaderSize /\ fr.out.magic = <<255, 254>>
             /\ fr.out.version /= 1) => fr.err = VersionError
         /\ (/\ fr.out.len >= HeaderSize /\ fr.out.magic = <<255, 254>>
             /\ fr.out.version = 1
             /\ fr.out.method \notin MethodByte("GZIP")..MethodByte("HYBRID"))
            => fr.err = MethodError
         /\ fr.err /= NoErr => fr.restored = <<>>

\* C16 witness: a container whose method byte was set to 8 has been refused
\* with the method error.
C16_Witness ==
    /\ fr.pc = "restored" /\ fr.tamper = "method"
    /\ fr.out.method = 8
    /\ fr.err = MethodError /\ fr.restored = <<>>

\* The codec of the header's method accepted the payload.
Decompressed ==
    /\ fr.out.len > 0 /\ HeaderOk(fr.out)
    /\ MethodOfByte(fr.out.method) \in Methods
    /\ ~MakePanics(MethodOfByte(fr.out.method), fr.out.data, fr.out.originalSize)
    /\ DecompressAccepts(MethodOfByte(fr.out.method), fr.out.data, fr.out.originalSize)

\* C17: data returned without error has the length the header records; when
\* decompression and the reversed pre-filter give another length, the
\* size-mismatch error is returned and no data.
C17_SizeCheck ==
    fr.pc = "restored" =>
        /\ fr.err = NoErr => Len(fr.restored) = fr.out.originalSize
        /\ (Decompressed /\ Len(RestoredBytes(fr.out)) /= fr.out.originalSize)
           => (fr.err = SizeError /\ fr.restored = <<>>)

\* C17 witness: the recorded size was raised by one, the payload decompressed,
\* and the size-mismatch error has been returned.
C17_Witness ==
    /\ fr.pc = "restored" /\ fr.tamper = "size_plus" /\ Decompressed
    /\ Len(RestoredBytes(fr.out)) = fr.out.originalSize - 1
    /\ fr.err = SizeError

\* C18: the method byte of every container ReduceFileSize returns is one of
\* 0..7, is the method that produced the payload, and is
\* CompressionResult.Method; selectOptimalMethod returns a concrete method.
C18_AdaptiveNeverPersisted ==
    /\ fr.pc = "reduced" =>
         /\ fr.out.method \in MethodByte("GZIP")..MethodByte("HYBRID")
         /\ fr.out.data = CompressWith(MethodOfByte(fr.out.method),
                                       Raw(Processed(fr.enablePreFilter, fr.data)))
         /\ MethodOfByte(fr.out.method) = fr.resultMethod
    /\ fr.pc = "selected" => fr.selected \in Methods

\* C18 witness: a FileReducer configured with ADAPTIVE has returned a
\* container whose header names LZ4 and whose payload is an LZ4 block.
C18_Witness ==
    /\ fr.pc = "reduced" /\ fr.method = "ADAPTIVE"
    /\ fr.out.method = MethodByte("LZ4")
    /\ Head(fr.out.data.layers) = "LZ4"
    /\ fr.resultMethod = "LZ4"

\* ------------------------------------------- FileManager configuration
\* No FileManager has been constructed yet.
NoManager ==
    [made |-> FALSE, config |-> NilConfig, encId |-> 0, err |-> NoErr,
     lastOp |-> "none", arg |-> NilConfig,
     prevConfig |-> NilConfig, prevEncId |-> 0, rotations |-> 0]

NoEncryptor ==
    [baseKey |-> <<>>, pepper |-> <<>>, currentSalt |-> 0,
     cipherKey |-> NoKey, cipherGCM |-> NoKey]

\* The *Config values a caller passes: nil, or any key with any pepper, the
\* empty strings included.
ConfigArgs ==
    {NilConfig} \cup {ConfigOf(k, p) : k \in Keys \cup {<<>>}, p \in Peppers \cup {<<>>}}

PepperRequired == "pepper is required for enhanced security"
NilPanic == "panic: nil pointer dereference"

\* NewFileManager(config)
NewFileManager ==
    /\ ~fm.made
    /\ th[1].pc = "idle"
    /\ \E cfg \in ConfigArgs, s \in Salts :
         LET config == IF cfg.nil THEN DefaultConfig ELSE cfg
         IN IF config.pepper = <<>>
            THEN /\ fm' = [fm EXCEPT !.err = PepperRequired, !.lastOp = "NewFileManager",
                                     !.arg = cfg]
                 /\ enc' = enc
            ELSE /\ enc' = NewEncryptorWith(config.key, config.pepper, s)
                 /\ fm' = [fm EXCEPT !.made = TRUE, !.config = config, !.encId = 1,
                                     !.err = NoErr, !.lastOp = "NewFileManager",
                                     !.arg = cfg]
    /\ encAtCall' = enc
    /\ UNCHANGED <<th, pool, storage, saved, fr>>
    /\ UNCHANGED batchVars

\* A comparison that found every configuration changed.
AlwaysChanged(config, current) == TRUE

\* keyChanged || pepperChanged
SecretChanged(config, current) ==
    config.key /= current.key \/ config.pepper /= current.pepper

\* UpdateConfig(config)
UpdateConfig ==
    /\ fm.made
    /\ th[1].pc = "idle"
    /\ fm.encId < MaxEncryptors
    /\ \E cfg \in ConfigArgs, s \in Salts :
         IF cfg.nil
         THEN /\ fm' = [fm EXCEPT !.err = NilPanic, !.lastOp = "UpdateConfig", !.arg = cfg,
                                  !.prevConfig = fm.config, !.prevEncId = fm.encId]
              /\ enc' = enc
         ELSE IF cfg.pepper = <<>>
         THEN /\ fm' = [fm EXCEPT !.err = PepperRequired, !.lastOp = "UpdateConfig",
                                  !.arg = cfg, !.prevConfig = fm.config,
                                  !.prevEncId = fm.encId]
              /\ enc' = enc
         ELSE /\ enc' = IF SecretChanged(cfg, fm.config)
                        THEN NewEncryptorWith(cfg.key, cfg.pepper, s) ELSE enc
              /\ fm' = [fm EXCEPT !.config = cfg,
                                  !.encId = IF SecretChanged(cfg, fm.config) THEN @ + 1 ELSE @,
                                  !.err = NoErr, !.lastOp = "UpdateConfig", !.arg = cfg,
                                  !.prevConfig = fm.config, !.prevEncId = fm.encId]
    /\ encAtCall' = enc
    /\ UNCHANGED <<th, pool, storage, saved, fr>>
    /\ UNCHANGED batchVars

\* The caller writes a pepper through the pointer GetConfig returned; the
\* FileManager's configuration is that very object.
MutateConfig ==
    /\ fm.made
    /\ th[1].pc = "idle"
    /\ \E p \in Peppers \ {fm.config.pepper} :
         fm' = [fm EXCEPT !.config.pepper = p, !.lastOp = "GetConfig"]
    /\ UNCHANGED <<enc, th, pool, storage, saved, encAtCall, fr>>
    /\ UNCHANGED batchVars

InitConfig ==
    /\ enc = NoEncryptor
    /\ th = [t \in Threads |-> IdleThread]
    /\ pool = {}
    /\ storage = [l \in Locs |-> NoFile]
    /\ encAtCall = enc
    /\ saved = [l \in Locs |-> NoSaved]
    /\ batch = NoBatch
    /\ main = [pc |-> "none", i |-> 0, j |-> 0]
    /\ results = <<>>
    /\ sem = 0
    /\ wg = 0
    /\ errChan = <<>>
    /\ fr = NoReducer
    /\ fm = NoManager

\* One caller constructs a FileManager, then updates its configuration,
\* rotates the pepper and writes to the configuration it was handed.
NextConfig ==
    \/ NewFileManager
    \/ UpdateConfig
    \/ MutateConfig
    \/ CallRotate(1)
    \/ UpdSalt(1)
    \/ UpdKey(1)
    \/ UpdGcm(1)
    \/ RotateConfig(1)
    \/ Return(1)

SpecConfig == InitConfig /\ [][NextConfig]_vars

\* C19: NewFileManager called with no configuration, or with an empty pepper,
\* fails with the configuration error and constructs nothing.
C19_SecretsSuppliedExplicitly ==
    (fm.lastOp = "NewFileManager" /\ (fm.arg.nil \/ fm.arg.pepper = <<>>)) =>
        (fm.err = PepperRequired /\ ~fm.made)

\* UpdateConfig has just returned without error.
Updated == fm.lastOp = "UpdateConfig" /\ fm.err = NoErr /\ th[1].pc = "idle"

\* C20: after UpdateConfig(c) the FileManager holds the same Encryptor,
\* unchanged, if c's key and pepper equal those of the configuration held
\* before, and a new Encryptor made from c's key and pepper if one of them
\* differs; the configuration held is c.
C20_UpdateConfigSwapsOnChange ==
    Updated =>
        /\ fm.config = fm.arg
        /\ IF fm.arg.key = fm.prevConfig.key /\ fm.arg.pepper = fm.prevConfig.pepper
           THEN fm.encId = fm.prevEncId /\ enc = encAtCall
           ELSE /\ fm.encId /= fm.prevEncId
                /\ enc.baseKey = fm.arg.key /\ enc.pepper = fm.arg.pepper

\* C20 witness: an UpdateConfig with the key and pepper already held has
\* returned, after an earlier one had installed a second Encryptor.
C20_Witness ==
    /\ Updated
    /\ fm.arg.key = fm.prevConfig.key /\ fm.arg.pepper = fm.prevConfig.pepper
    /\ fm.encId = fm.prevEncId /\ fm.encId = 2
    /\ enc = encAtCall

\* The configuration of the two FileReducers.
ReducerConfig == <<fr.method, fr.enablePreFilter, fr.restoreFilter>>

\* C21: no step of ReduceFileSize, of selectOptimalMethod or of
\* RestoreOriginalSize changes the configuration of a FileReducer, whether
\* the call succeeds or fails.
C21_ReducerUnchanged ==
    [][ReducerConfig' = ReducerConfig]_vars

\* C21 witness: a FileReducer configured with ADAPTIVE has reduced a buffer
\* with LZ4, the container was restored, and the FileReducer is still
\* configured with ADAPTIVE.
C21_Witness ==
    /\ fr.pc = "restored" /\ fr.tamper = "none" /\ fr.err = NoErr
    /\ fr.resultMethod = "LZ4" /\ fr.method = "ADAPTIVE"

\* The decision list: first match wins.
DecisionList(bytes) ==
    CASE Len(bytes) < 1024 -> "LZ4"
      [] OTHER ->
         CASE (\E sig \in Signatures : HasPrefix(bytes, sig)) \/ HighEntropy(bytes) -> "LZ4"
           [] OTHER ->
              CASE \E v \in 0..255 : Cardinality({i \in 1..100 : bytes[i] = v}) > 70 -> "XZ"
                [] OTHER ->
                   CASE Cardinality({i \in 1..50 : bytes[i] = 0}) > 2 -> "ZSTD"
                     [] OTHER -> "HYBRID"

\* C22: the method selected under ADAPTIVE, for the buffer as the optional
\* pre-filter left it, is the one the decision list gives, and is one of LZ4,
\* XZ, ZSTD and HYBRID.
C22_AdaptiveDecisionList ==
    /\ fr.pc = "selected" =>
         /\ fr.selected = DecisionList(Processed(fr.enablePreFilter, fr.data))
         /\ fr.selected \in {"LZ4", "XZ", "ZSTD", "HYBRID"}
    /\ (fr.pc = "reduced" /\ fr.method = "ADAPTIVE") =>
         fr.resultMethod = DecisionList(Processed(fr.enablePreFilter, fr.data))

\* C22 witness: a buffer of 1024 bytes that is both repetitive and full of
\* NUL bytes after the pre-filter has been given XZ.
C22_Witness ==
    /\ fr.pc = "selected" /\ fr.selected = "XZ"
    /\ isBinaryData(Processed(fr.enablePreFilter, fr.data))
    /\ isHighlyRepetitive(Processed(fr.enablePreFilter, fr.data))

\* C23: the payload of every container whose header names HYBRID is
\* ZSTD(LZ4(x)) or XZ(ZSTD(LZ4(x))), x being the buffer as the optional
\* pre-filter left it.
C23_HybridPayloadShape ==
    (fr.pc = "reduced" /\ fr.out.method = MethodByte("HYBRID")) =>
        /\ fr.out.data.layers \in {<<"ZSTD", "LZ4">>, <<"XZ", "ZSTD", "LZ4">>}
        /\ fr.out.data.bytes = Processed(fr.enablePreFilter, fr.data)

\* C24: a buffer shorter than salt, nonce and tag together is refused by the
\* length check of Decrypt with the too-short error, and no such buffer is
\* in a Decrypt that has passed the length check.
C24_ShortBufferRejected ==
    /\ (DecryptReturned /\ BlobLen(th[1].blob) < MinContainerSize) =>
           th[1].err = "encrypted data too short"
    /\ (th[1].op = "Decrypt" /\ th[1].pc \in {"upd_salt", "upd_key", "upd_gcm", "open"}) =>
           BlobLen(th[1].blob) >= MinContainerSize

\* C25: for every buffer handed to ReduceFileSize, the empty one and those
\* of one byte included, reversePreFilter undoes preFilterData and both keep
\* the length; where RestoreOriginalSize has reversed the filter of an
\* unchanged container, it has returned the buffer.
C25_PreFilterInvertible ==
    /\ fr.data \in DataBufs =>
         /\ reversePreFilter(preFilterData(fr.data)) = fr.data
         /\ Len(preFilterData(fr.data)) = Len(fr.data)
         /\ Len(reversePreFilter(fr.data)) = Len(fr.data)
    /\ (/\ fr.pc = "restored" /\ fr.tamper = "none" /\ fr.err = NoErr
        /\ fr.enablePreFilter /\ fr.restoreFilter)
       => fr.restored = fr.data

\* C25 witness: a buffer whose delta encoding wraps around 256 was filtered,
\* reduced, and restored through the reversed filter.
C25_Witness ==
    /\ fr.pc = "restored" /\ fr.tamper = "none" /\ fr.err = NoErr
    /\ fr.enablePreFilter /\ fr.restoreFilter
    /\ Len(fr.data) = MaxDataLen
    /\ \E i \in 2..Len(fr.data) : fr.data[i] < fr.data[i - 1]
    /\ fr.out.data.bytes /= fr.data
    /\ fr.restored = fr.data

\* NewFileManager, UpdateConfig or RotatePepper has just returned without
\* error.
ManagerCallSucceeded ==
    /\ fm.made /\ th[1].pc = "idle" /\ fm.err = NoErr
    /\ fm.lastOp \in {"NewFileManager", "UpdateConfig", "RotatePepper"}

\* C26: after a successful NewFileManager, UpdateConfig or RotatePepper the
\* key and the pepper of the Encryptor held are those of the configuration
\* held, also when UpdateConfig was handed the held configuration after the
\* caller wrote to it.
C26_SecretConsistency ==
    ManagerCallSucceeded =>
        (enc.baseKey = fm.config.key /\ enc.pepper = fm.config.pepper)

\* C28: the pepper a FileManager holds, in its configuration and in its
\* Encryptor, is never empty, and a call that returned an error has left the
\* configuration and the Encryptor as they were.
C28_PepperNeverEmpty ==
    /\ fm.made => (fm.config.pepper /= <<>> /\ enc.pepper /= <<>>)
    /\ (fm.made /\ fm.lastOp = "UpdateConfig" /\ fm.err /= NoErr /\ th[1].pc = "idle") =>
           (fm.config = fm.prevConfig /\ fm.encId = fm.prevEncId /\ enc = encAtCall)

\* The operations of the batch whose copy reported success.
Writers == {i \in 1..batch.n : results[i].success}

\* C27: when a BatchCopyFiles call whose operations all forbid overwriting
\* and all name one destination has returned, at most one operation has
\* written the destination and every other one reports an error; and an
\* operation that found the destination present reports that error.
C27_NoOverwriteWithoutPermission ==
    (batch.kind = "BatchCopy" /\ ~batch.overwrite /\ main.pc = "returned") =>
        /\ Cardinality(Writers) <= 1
        /\ \A i \in 1..batch.n : ~results[i].success => results[i].err /= NoErr
        /\ \A i \in 1..batch.n :
             results[i].err = ExistsError => FileExists(results[i].dst)

\* A step in which a LoadDecrypted or ReEncryptFile call fails.
LoadFails ==
    /\ th[1].op \in {"Load", "ReEncrypt"}
    /\ th[1].pc /= "ret"
    /\ th'[1].pc = "ret"
    /\ th'[1].err /= NoErr

\* C29: the step in which a LoadDecrypted call fails leaves the SecureFile's
\* Data field and every stored file as they were, whatever the reason of the
\* failure, and so does the step in which a ReEncryptFile call fails; no
\* earlier step of either call writes a file or the Data field.
C29_FailedLoadChangesNothing ==
    [][/\ LoadFails => (th'[1].data = th[1].data /\ storage' = storage)
       /\ (th[1].op \in {"Load", "ReEncrypt"} /\ th'[1].op = th[1].op /\ ~LoadFails) =>
            ((storage' /= storage \/ th'[1].data /= th[1].data) => th'[1].err = NoErr)]_vars

\* C30: a RestoreOriginalSize call that has returned yields data or an
\* error and has not panicked; one given a container with valid magic and
\* version, a negative size field and the method LZ4 or HYBRID has returned
\* an error, its output buffer never having been allocated.
C30_RestoreNeverCrashes ==
    fr.pc = "restored" =>
        /\ fr.err /= PanicError
        /\ (/\ fr.out.len >= HeaderSize
            /\ HeaderOk(fr.out)
            /\ fr.out.originalSize < 0
            /\ MethodOfByte(fr.out.method) \in {"LZ4", "HYBRID"}) =>
               fr.err \in {DecompressionError, SizeError}

============================================================================
